---- MODULE Spec2Model ----
(***************************************************************************)
(* Steam Deck restock checker (shamrt/steam-deck-restock).                 *)
(*                                                                         *)
(* The model follows the multi-device command line program                 *)
(* (src/unnamed/part_003): the CLI entry parses its options, builds the    *)
(* Pushover client and calls checkSteamDeckStock, which drives a browser   *)
(* session through a sequence of awaited operations, classifies the cart   *)
(* button texts and sends notifications.  Every await of the code is one   *)
(* step of the model; an awaited external operation either resolves or     *)
(* rejects.  Texts are sequences of words and String.includes is the       *)
(* contiguous-subsequence test on them.                                    *)
(***************************************************************************)
EXTENDS Integers, Sequences, FiniteSets, TLC

VARIABLES
    pc,               \* position of the single thread of control
    argv,             \* parsed command line (yargs)
    env,              \* process.env: PUSHOVER_USER, PUSHOVER_TOKEN
    pushover,         \* the Pushover client, NoClient for null
    device,           \* key of DEVICES under watch, "" before the lookup
    browser,          \* "none" (undefined), "open", "closed"
    launchCount,      \* resolved puppeteer.launch calls
    closeCount,       \* browser.close calls
    gotoCount,        \* page.goto calls
    pageButtons,      \* number of div.CartBtn elements of the loaded page
    cartButtonTexts,  \* texts pushed so far
    classified,       \* lines 172-175 have run
    isDeviceAvailable,
    availableDevices,
    sent,             \* every call of sendNotification, in call order
    error,            \* the error thrown in / rejected by checkSteamDeckStock
    logs,             \* console.error lines written
    printed,          \* the catalog was printed (--list-devices)
    exitCode,         \* -1 while the process runs
    variant,          \* the program that runs: "multi" is src/unnamed/part_003
    files             \* lines appended to the files of the logs directory

vars == <<pc, argv, env, pushover, device, browser, launchCount, closeCount,
          gotoCount, pageButtons, cartButtonTexts, classified,
          isDeviceAvailable, availableDevices, sent, error, logs, printed,
          exitCode, variant, files>>

-----------------------------------------------------------------------------
(* Bounds *)

\* Largest number of cart buttons a loaded page shows.
MaxButtons == 2

-----------------------------------------------------------------------------
(* Device catalog *)

DeviceCodes == <<"oled-512", "oled-1tb", "lcd-256", "lcd-512">>

DEVICES ==
    ("oled-512" :> [name |-> <<"Steam", "Deck", "OLED", "512GB">>,
                    priority |-> 1, sound |-> "magic"]) @@
    ("oled-1tb" :> [name |-> <<"Steam", "Deck", "OLED", "1TB">>,
                    priority |-> 1, sound |-> "magic"]) @@
    ("lcd-256"  :> [name |-> <<"Steam", "Deck", "LCD", "256GB">>,
                    priority |-> 0, sound |-> "pushover"]) @@
    ("lcd-512"  :> [name |-> <<"Steam", "Deck", "LCD", "512GB">>,
                    priority |-> 0, sound |-> "pushover"])

OutOfStock == <<"Out", "of", "stock">>

\* Texts a cart button container can carry.
SampleTexts ==
    { <<"Steam", "Deck", "OLED", "512GB", "Add", "to", "cart">>,
      <<"Steam", "Deck", "OLED", "512GB", "Out", "of", "stock">>,
      <<"Steam", "Deck", "LCD", "256GB", "Add", "to", "cart">>,
      <<"Steam", "Deck", "512", "GB", "OLED", "Add", "to", "cart">> }

-----------------------------------------------------------------------------
(* Pure helpers *)

\* String.prototype.includes on word sequences.
Includes(text, needle) ==
    \E i \in 0..(Len(text) - Len(needle)) :
        \A j \in 1..Len(needle) : text[i + j] = needle[j]

\* b || a: the environment variable wins over the command line.
OrElseEnvFirst(a, b) == IF b # "" THEN b ELSE a

\* a || b on strings: the empty string and undefined are both falsy.
OrElse(a, b) == IF a # "" THEN a ELSE b

RECURSIVE Join(_)
\* Array.prototype.join(","): the property key an array value turns into.
Join(s) ==
    IF Len(s) = 0 THEN ""
    ELSE IF Len(s) = 1 THEN s[1]
    ELSE s[1] \o "," \o Join(Tail(s))

\* No line was appended to any log file.
NoLines == [in_stock |-> 0, check_log |-> 0, error |-> 0]

NoClient == [configured |-> FALSE, user |-> "", token |-> ""]

initializePushover(userKey, apiToken) ==
    IF userKey # "" /\ apiToken # ""
    THEN [configured |-> TRUE, user |-> userKey, token |-> apiToken]
    ELSE NoClient

\* A predicate that looks for the name and for the marker in any texts,
\* not in one and the same text.
checkDeviceAvailabilityAnyText(texts, dev) ==
    /\ \E i \in 1..Len(texts) : Includes(texts[i], dev.name)
    /\ \A i \in 1..Len(texts) : ~Includes(texts[i], OutOfStock)

\* A predicate written with every() in the place of some().
checkDeviceAvailabilityEvery(texts, dev) ==
    \A i \in 1..Len(texts) :
        Includes(texts[i], dev.name) /\ ~Includes(texts[i], OutOfStock)

\* A predicate that looks at the first text only.
checkDeviceAvailabilityFirstText(texts, dev) ==
    /\ Len(texts) >= 1
    /\ Includes(texts[1], dev.name)
    /\ ~Includes(texts[1], OutOfStock)

\* cartButtonTexts.some((buttonText) => ...)
checkDeviceAvailability(texts, dev) ==
    \E i \in 1..Len(texts) :
        LET buttonText == texts[i] IN
        Includes(buttonText, dev.name) /\ ~Includes(buttonText, OutOfStock)

\* A catalog scan that looks for the device name only and leaves the
\* "Out of stock" marker out.
checkAllDevicesAvailabilityNameOnly(texts) ==
    SelectSeq(DeviceCodes,
              LAMBDA deviceCode :
                  \E i \in 1..Len(texts) :
                      Includes(texts[i], DEVICES[deviceCode].name))

checkAllDevicesAvailability(texts) ==
    SelectSeq(DeviceCodes,
              LAMBDA deviceCode : checkDeviceAvailability(texts, DEVICES[deviceCode]))

\* The catalog of src/unnamed/part_004: each device carries the terms a
\* text must contain.
DEVICES_SearchTerms ==
    ("oled-512" :> [name |-> <<"Steam", "Deck", "OLED", "512GB">>,
                    searchTerms |-> << <<"Steam", "Deck", "512", "GB", "OLED">>,
                                       <<"Add", "to", "cart">> >>,
                    priority |-> 1, sound |-> "magic"]) @@
    ("oled-1tb" :> [name |-> <<"Steam", "Deck", "OLED", "1TB">>,
                    searchTerms |-> << <<"Steam", "Deck", "1", "TB", "OLED">>,
                                       <<"Add", "to", "cart">> >>,
                    priority |-> 1, sound |-> "magic"]) @@
    ("lcd-256"  :> [name |-> <<"Steam", "Deck", "LCD", "256GB">>,
                    searchTerms |-> << <<"Steam", "Deck", "256", "GB">>,
                                       <<"Add", "to", "cart">> >>,
                    priority |-> 0, sound |-> "pushover"]) @@
    ("lcd-512"  :> [name |-> <<"Steam", "Deck", "LCD", "512GB">>,
                    searchTerms |-> << <<"Steam", "Deck", "512", "GB">>,
                                       <<"Add", "to", "cart">> >>,
                    priority |-> 0, sound |-> "pushover"])

\* checkDeviceAvailability of src/unnamed/part_004:
\* cartButtonTexts.some((t) => device.searchTerms.every((term) => t.includes(term)))
checkDeviceAvailability_SearchTerms(texts, dev) ==
    \E i \in 1..Len(texts) :
        \A k \in 1..Len(dev.searchTerms) : Includes(texts[i], dev.searchTerms[k])

\* availableDevices.map((code) => DEVICES[code].name)
otherDeviceNames(codes) == [i \in 1..Len(codes) |-> DEVICES[codes[i]].name]

\* A sendNotification without the `if (!pushover)` guard.
sendNotificationNoGuard(po, kind, subject, names, priority, sound) ==
    [kind |-> kind, device |-> subject, names |-> names,
     priority |-> priority, sound |-> sound,
     transport |-> TRUE, outcome |-> "pending"]

\* sendNotification up to its await: without a client it logs and returns,
\* with one it hands the message to pushover.send.
sendNotification(po, kind, subject, names, priority, sound) ==
    IF ~po.configured
    THEN [kind |-> kind, device |-> subject, names |-> names,
          priority |-> priority, sound |-> sound,
          transport |-> FALSE, outcome |-> "noop"]
    ELSE [kind |-> kind, device |-> subject, names |-> names,
          priority |-> priority, sound |-> sound,
          transport |-> TRUE, outcome |-> "pending"]

-----------------------------------------------------------------------------
(* Initial states: the command line and the environment *)

DeviceArgs ==
    { <<DeviceCodes[i]>> : i \in 1..Len(DeviceCodes) }
        \cup { <<"steam-machine">> }            \* not one of the choices
        \cup { <<"oled-512", "lcd-256">> }       \* --device given twice

Init ==
    /\ pc = "start"
    /\ argv \in [device : DeviceArgs,
                 pushoverUser : {"", "cli-user"},
                 pushoverToken : {"", "cli-token"},
                 notifySuccess : BOOLEAN,
                 listDevices : BOOLEAN]
    /\ env \in [PUSHOVER_USER : {"", "env-user"},
                PUSHOVER_TOKEN : {"", "env-token"}]
    /\ pushover = NoClient
    /\ device = ""
    /\ browser = "none"
    /\ launchCount = 0
    /\ closeCount = 0
    /\ gotoCount = 0
    /\ pageButtons = 0
    /\ cartButtonTexts = <<>>
    /\ classified = FALSE
    /\ isDeviceAvailable = FALSE
    /\ availableDevices = <<>>
    /\ sent = <<>>
    /\ error = "none"
    /\ logs = {}
    /\ printed = FALSE
    /\ exitCode = -1
    /\ variant = "multi"
    /\ files = NoLines

-----------------------------------------------------------------------------
(* Messages composed by checkSteamDeckStock and the CLI entry *)

\* The stock alert of the single-device program: always priority 1.
inStockNotificationHigh(po, code) ==
    sendNotification(po, "in_stock", code, <<>>, 1, "magic")

inStockNotification(po, code) ==
    sendNotification(po, "in_stock", code, <<>>,
                     DEVICES[code].priority, DEVICES[code].sound)

otherDevicesNotification(po, code, codes) ==
    sendNotification(po, "other_devices", code, otherDeviceNames(codes),
                     0, "pushover")

heartbeatNotification(po, code) ==
    sendNotification(po, "heartbeat", code, <<>>, 0, "pushover")

errorNotification(po, code) ==
    sendNotification(po, "error", code, <<>>, 1, "siren")

criticalNotification(po) ==
    sendNotification(po, "critical", "", <<>>, 2, "siren")

\* The await of a sendNotification call resumes: a call without a client has
\* already returned, a call with one resolves or rejects with pushover.send.
Settled(ok) ==
    LET n == Len(sent) IN
    IF sent[n].transport
    THEN [sent EXCEPT ![n].outcome = IF ok THEN "ok" ELSE "failed"]
    ELSE sent

LastFails(ok) == sent[Len(sent)].transport /\ ~ok

-----------------------------------------------------------------------------
(* CLI entry, up to the call of checkSteamDeckStock *)

\* yargs(...).parseSync(): a value outside `choices` fails the parse, and
\* yargs prints the usage and exits with code 1.  An option given twice is
\* parsed to an array, each of whose values is checked against the choices.
ParseArgs ==
    /\ pc = "start"
    /\ IF \E i \in 1..Len(argv.device) :
              \A k \in 1..Len(DeviceCodes) : argv.device[i] # DeviceCodes[k]
       THEN /\ pc' = "exited"
            /\ exitCode' = 1
            /\ error' = "invalid_choice"
       ELSE /\ pc' = "main"
            /\ UNCHANGED <<exitCode, error>>
    /\ UNCHANGED <<argv, env, pushover, device, browser, launchCount,
                   closeCount, gotoCount, pageButtons, cartButtonTexts,
                   classified, isDeviceAvailable, availableDevices, sent,
                   logs, printed>>
    /\ UNCHANGED <<variant, files>>

\* A listing without process.exit(0): the entry goes on to the check.
ListDevicesNoExit ==
    /\ pc = "main"
    /\ argv.listDevices
    /\ printed' = TRUE
    /\ pushover' = initializePushover(OrElse(argv.pushoverUser, env.PUSHOVER_USER),
                                      OrElse(argv.pushoverToken, env.PUSHOVER_TOKEN))
    /\ pc' = "call"
    /\ UNCHANGED <<argv, env, device, browser, launchCount, closeCount,
                   gotoCount, pageButtons, cartButtonTexts, classified,
                   isDeviceAvailable, availableDevices, sent, error, logs,
                   exitCode>>
    /\ UNCHANGED <<variant, files>>

\* if (argv.listDevices) { print the catalog; process.exit(0) }
ListDevices ==
    /\ pc = "main"
    /\ argv.listDevices
    /\ printed' = TRUE
    /\ exitCode' = 0
    /\ pc' = "exited"
    /\ UNCHANGED <<argv, env, pushover, device, browser, launchCount,
                   closeCount, gotoCount, pageButtons, cartButtonTexts,
                   classified, isDeviceAvailable, availableDevices, sent,
                   error, logs>>
    /\ UNCHANGED <<variant, files>>

MainInit ==
    /\ pc = "main"
    /\ ~argv.listDevices
    /\ LET userKey == OrElse(argv.pushoverUser, env.PUSHOVER_USER)
           apiToken == OrElse(argv.pushoverToken, env.PUSHOVER_TOKEN)
       IN pushover' = initializePushover(userKey, apiToken)
    /\ pc' = "call"
    /\ UNCHANGED <<argv, env, device, browser, launchCount, closeCount,
                   gotoCount, pageButtons, cartButtonTexts, classified,
                   isDeviceAvailable, availableDevices, sent, error, logs,
                   printed, exitCode>>
    /\ UNCHANGED <<variant, files>>

-----------------------------------------------------------------------------
(* checkSteamDeckStock *)

\* A lookup that falls back to the default device instead of throwing.
CheckDeviceFallback ==
    /\ pc = "call"
    /\ LET deviceCode == Join(argv.device) IN
       device' = IF deviceCode \in DOMAIN DEVICES THEN deviceCode
                 ELSE "oled-512"
    /\ pc' = "launch"
    /\ UNCHANGED <<argv, env, pushover, browser, launchCount, closeCount,
                   gotoCount, pageButtons, cartButtonTexts, classified,
                   isDeviceAvailable, availableDevices, sent, error, logs,
                   printed, exitCode>>
    /\ UNCHANGED <<variant, files>>

\* const device = DEVICES[deviceCode]; if (!device) throw ...
\* The throw is outside the try block: the promise rejects at once.
CheckDevice ==
    /\ pc = "call"
    /\ LET deviceCode == Join(argv.device) IN
       IF deviceCode \in DOMAIN DEVICES
       THEN /\ device' = deviceCode
            /\ pc' = "launch"
            /\ error' = error
       ELSE /\ error' = "unknown_device"
            /\ pc' = "main_catch"
            /\ device' = device
    /\ UNCHANGED <<argv, env, pushover, browser, launchCount, closeCount,
                   gotoCount, pageButtons, cartButtonTexts, classified,
                   isDeviceAvailable, availableDevices, sent, logs,
                   printed, exitCode>>
    /\ UNCHANGED <<variant, files>>

\* An awaited operation inside the try block rejects.
Throws(e) ==
    /\ error' = e
    /\ pc' = "catch"

Launch ==
    /\ pc = "launch"
    /\ \/ /\ browser' = "open"
          /\ launchCount' = launchCount + 1
          /\ pc' = "newPage"
          /\ error' = error
       \/ /\ Throws("launch_failed")
          /\ UNCHANGED <<browser, launchCount>>
    /\ UNCHANGED <<argv, env, pushover, device, closeCount, gotoCount,
                   pageButtons, cartButtonTexts, classified,
                   isDeviceAvailable, availableDevices, sent, logs, printed,
                   exitCode>>
    /\ UNCHANGED <<variant, files>>

NewPage ==
    /\ pc = "newPage"
    /\ \/ /\ pc' = "setUserAgent"
          /\ error' = error
       \/ Throws("new_page_failed")
    /\ UNCHANGED <<argv, env, pushover, device, browser, launchCount,
                   closeCount, gotoCount, pageButtons, cartButtonTexts,
                   classified, isDeviceAvailable, availableDevices, sent,
                   logs, printed, exitCode>>
    /\ UNCHANGED <<variant, files>>

SetUserAgent ==
    /\ pc = "setUserAgent"
    /\ \/ /\ pc' = "goto"
          /\ error' = error
       \/ Throws("user_agent_failed")
    /\ UNCHANGED <<argv, env, pushover, device, browser, launchCount,
                   closeCount, gotoCount, pageButtons, cartButtonTexts,
                   classified, isDeviceAvailable, availableDevices, sent,
                   logs, printed, exitCode>>
    /\ UNCHANGED <<variant, files>>

\* page.goto(url, { waitUntil: "networkidle0" }): the page loads with some
\* number of cart buttons, or the navigation times out.
Goto ==
    /\ pc = "goto"
    /\ gotoCount' = gotoCount + 1
    /\ \/ /\ \E n \in 0..MaxButtons : pageButtons' = n
          /\ pc' = "focus"
          /\ error' = error
       \/ /\ Throws("navigation_timeout")
          /\ pageButtons' = pageButtons
    /\ UNCHANGED <<argv, env, pushover, device, browser, launchCount,
                   closeCount, cartButtonTexts, classified,
                   isDeviceAvailable, availableDevices, sent, logs, printed,
                   exitCode>>
    /\ UNCHANGED <<variant, files>>

\* A scrape that goes on to the query when no element matches.
FocusNoThrow ==
    /\ pc = "focus"
    /\ \/ /\ pc' = "query"
          /\ error' = error
       \/ Throws("focus_failed")
    /\ UNCHANGED <<argv, env, pushover, device, browser, launchCount,
                   closeCount, gotoCount, pageButtons, cartButtonTexts,
                   classified, isDeviceAvailable, availableDevices, sent,
                   logs, printed, exitCode>>
    /\ UNCHANGED <<variant, files>>

\* page.focus("div.CartBtn") rejects when no element matches the selector.
Focus ==
    /\ pc = "focus"
    /\ IF pageButtons = 0
       THEN Throws("no_element_for_selector")
       ELSE \/ /\ pc' = "query"
               /\ error' = error
            \/ Throws("focus_failed")
    /\ UNCHANGED <<argv, env, pushover, device, browser, launchCount,
                   closeCount, gotoCount, pageButtons, cartButtonTexts,
                   classified, isDeviceAvailable, availableDevices, sent,
                   logs, printed, exitCode>>
    /\ UNCHANGED <<variant, files>>

\* const cartButtons = await page.$$("div.CartBtn")
QueryButtons ==
    /\ pc = "query"
    /\ \/ /\ pc' = "evaluate"
          /\ error' = error
       \/ Throws("query_failed")
    /\ UNCHANGED <<argv, env, pushover, device, browser, launchCount,
                   closeCount, gotoCount, pageButtons, cartButtonTexts,
                   classified, isDeviceAvailable, availableDevices, sent,
                   logs, printed, exitCode>>
    /\ UNCHANGED <<variant, files>>

\* One iteration of the for loop: evaluate the container text and push it.
Evaluate ==
    /\ pc = "evaluate"
    /\ Len(cartButtonTexts) < pageButtons
    /\ \/ /\ \E text \in SampleTexts :
                cartButtonTexts' = Append(cartButtonTexts, text)
          /\ UNCHANGED <<pc, error>>
       \/ /\ Throws("evaluate_failed")
          /\ cartButtonTexts' = cartButtonTexts
    /\ UNCHANGED <<argv, env, pushover, device, browser, launchCount,
                   closeCount, gotoCount, pageButtons, classified,
                   isDeviceAvailable, availableDevices, sent, logs, printed,
                   exitCode>>
    /\ UNCHANGED <<variant, files>>

\* The loop is over: classify the texts.
Classify ==
    /\ pc = "evaluate"
    /\ Len(cartButtonTexts) = pageButtons
    /\ isDeviceAvailable' = checkDeviceAvailability(cartButtonTexts, DEVICES[device])
    /\ availableDevices' = checkAllDevicesAvailability(cartButtonTexts)
    /\ classified' = TRUE
    /\ pc' = "decide"
    /\ UNCHANGED <<argv, env, pushover, device, browser, launchCount,
                   closeCount, gotoCount, pageButtons, cartButtonTexts, sent,
                   error, logs, printed, exitCode>>
    /\ UNCHANGED <<variant, files>>

\* The if/else of lines 184-227, up to the await of the notification.
Decide ==
    /\ pc = "decide"
    /\ IF isDeviceAvailable
       THEN /\ sent' = Append(sent, inStockNotification(pushover, device))
            /\ pc' = "await_notify"
       ELSE IF Len(availableDevices) > 0
       THEN /\ sent' = Append(sent, otherDevicesNotification(pushover, device,
                                                            availableDevices))
            /\ pc' = "await_notify"
       ELSE IF argv.notifySuccess
       THEN /\ sent' = Append(sent, heartbeatNotification(pushover, device))
            /\ pc' = "await_notify"
       ELSE /\ sent' = sent
            /\ pc' = "finally"
    /\ UNCHANGED <<argv, env, pushover, device, browser, launchCount,
                   closeCount, gotoCount, pageButtons, cartButtonTexts,
                   classified, isDeviceAvailable, availableDevices, error,
                   logs, printed, exitCode>>
    /\ UNCHANGED <<variant, files>>

\* The awaited stock notification settles; a rejection is logged by
\* sendNotification, rethrown, and lands in the catch block.
AwaitNotify ==
    /\ pc = "await_notify"
    /\ \E ok \in BOOLEAN :
        /\ sent' = Settled(ok)
        /\ IF LastFails(ok)
           THEN /\ logs' = logs \cup {"send_failed"}
                /\ Throws("notification_failed")
           ELSE /\ pc' = "finally"
                /\ UNCHANGED <<logs, error>>
    /\ UNCHANGED <<argv, env, pushover, device, browser, launchCount,
                   closeCount, gotoCount, pageButtons, cartButtonTexts,
                   classified, isDeviceAvailable, availableDevices, printed,
                   exitCode>>
    /\ UNCHANGED <<variant, files>>

\* catch (error): log it and send the error notification.
Catch ==
    /\ pc = "catch"
    /\ logs' = logs \cup {"error_occurred"}
    /\ sent' = Append(sent, errorNotification(pushover, device))
    /\ pc' = "await_error_notify"
    /\ UNCHANGED <<argv, env, pushover, device, browser, launchCount,
                   closeCount, gotoCount, pageButtons, cartButtonTexts,
                   classified, isDeviceAvailable, availableDevices, error,
                   printed, exitCode>>
    /\ UNCHANGED <<variant, files>>

\* A catch block in which the failure of the error notification escapes and
\* takes the place of the error it reported.
AwaitErrorNotifyMasking ==
    /\ pc = "await_error_notify"
    /\ \E ok \in BOOLEAN :
        /\ sent' = Settled(ok)
        /\ IF LastFails(ok)
           THEN /\ logs' = logs \cup {"send_failed"}
                /\ error' = "notification_failed"
           ELSE UNCHANGED <<logs, error>>
    /\ pc' = "finally"
    /\ UNCHANGED <<argv, env, pushover, device, browser, launchCount,
                   closeCount, gotoCount, pageButtons, cartButtonTexts,
                   classified, isDeviceAvailable, availableDevices,
                   printed, exitCode>>
    /\ UNCHANGED <<variant, files>>

\* The error notification settles; its failure is logged and dropped, and
\* the original error is thrown again.
AwaitErrorNotify ==
    /\ pc = "await_error_notify"
    /\ \E ok \in BOOLEAN :
        /\ sent' = Settled(ok)
        /\ logs' = IF LastFails(ok)
                   THEN logs \cup {"send_failed", "error_notification_failed"}
                   ELSE logs
    /\ pc' = "finally"
    /\ UNCHANGED <<argv, env, pushover, device, browser, launchCount,
                   closeCount, gotoCount, pageButtons, cartButtonTexts,
                   classified, isDeviceAvailable, availableDevices, error,
                   printed, exitCode>>
    /\ UNCHANGED <<variant, files>>

\* A teardown that closes without looking at `browser`.
FinallyAlwaysClose ==
    /\ pc = "finally"
    /\ browser' = "closed"
    /\ closeCount' = closeCount + 1
    /\ pc' = IF error = "none" THEN "main_then" ELSE "main_catch"
    /\ UNCHANGED <<argv, env, pushover, device, launchCount, gotoCount,
                   pageButtons, cartButtonTexts, classified,
                   isDeviceAvailable, availableDevices, sent, error, logs,
                   printed, exitCode>>
    /\ UNCHANGED <<variant, files>>

\* finally { if (browser) await browser.close() }, then the promise of
\* checkSteamDeckStock settles.
Finally ==
    /\ pc = "finally"
    /\ IF browser = "open"
       THEN /\ browser' = "closed"
            /\ closeCount' = closeCount + 1
       ELSE UNCHANGED <<browser, closeCount>>
    /\ pc' = IF error = "none" THEN "main_then" ELSE "main_catch"
    /\ UNCHANGED <<argv, env, pushover, device, launchCount, gotoCount,
                   pageButtons, cartButtonTexts, classified,
                   isDeviceAvailable, availableDevices, sent, error, logs,
                   printed, exitCode>>
    /\ UNCHANGED <<variant, files>>

-----------------------------------------------------------------------------
(* CLI entry, after checkSteamDeckStock settled *)

MainThen ==
    /\ pc = "main_then"
    /\ exitCode' = 0
    /\ pc' = "exited"
    /\ UNCHANGED <<argv, env, pushover, device, browser, launchCount,
                   closeCount, gotoCount, pageButtons, cartButtonTexts,
                   classified, isDeviceAvailable, availableDevices, sent,
                   error, logs, printed>>
    /\ UNCHANGED <<variant, files>>

\* A handler that exits without the final notification.
MainCatchNoCritical ==
    /\ pc = "main_catch"
    /\ logs' = logs \cup {"stock_check_failed"}
    /\ exitCode' = 1
    /\ pc' = "exited"
    /\ UNCHANGED <<argv, env, pushover, device, browser, launchCount,
                   closeCount, gotoCount, pageButtons, cartButtonTexts,
                   classified, isDeviceAvailable, availableDevices, sent,
                   error, printed>>
    /\ UNCHANGED <<variant, files>>

\* A handler that starts the final notification and exits without waiting
\* for it.
MainCatchNoWait ==
    /\ pc = "main_catch"
    /\ logs' = logs \cup {"stock_check_failed"}
    /\ sent' = IF pushover.configured
               THEN Append(sent, criticalNotification(pushover))
               ELSE sent
    /\ exitCode' = 1
    /\ pc' = "exited"
    /\ UNCHANGED <<argv, env, pushover, device, browser, launchCount,
                   closeCount, gotoCount, pageButtons, cartButtonTexts,
                   classified, isDeviceAvailable, availableDevices, error,
                   printed>>
    /\ UNCHANGED <<variant, files>>

\* .catch(async (error) => ...): with a client, send the critical failure
\* notification and wait for it; without one, exit at once.
MainCatch ==
    /\ pc = "main_catch"
    /\ logs' = logs \cup {"stock_check_failed"}
    /\ IF pushover.configured
       THEN /\ sent' = Append(sent, criticalNotification(pushover))
            /\ pc' = "await_critical"
            /\ exitCode' = exitCode
       ELSE /\ exitCode' = 1
            /\ pc' = "exited"
            /\ sent' = sent
    /\ UNCHANGED <<argv, env, pushover, device, browser, launchCount,
                   closeCount, gotoCount, pageButtons, cartButtonTexts,
                   classified, isDeviceAvailable, availableDevices, error,
                   printed>>
    /\ UNCHANGED <<variant, files>>

AwaitCritical ==
    /\ pc = "await_critical"
    /\ \E ok \in BOOLEAN :
        /\ sent' = Settled(ok)
        /\ logs' = IF LastFails(ok)
                   THEN logs \cup {"send_failed", "critical_notification_failed"}
                   ELSE logs
    /\ exitCode' = 1
    /\ pc' = "exited"
    /\ UNCHANGED <<argv, env, pushover, device, browser, launchCount,
                   closeCount, gotoCount, pageButtons, cartButtonTexts,
                   classified, isDeviceAvailable, availableDevices, error,
                   printed>>
    /\ UNCHANGED <<variant, files>>

-----------------------------------------------------------------------------

Next ==
    \/ ParseArgs
    \/ ListDevices
    \/ MainInit
    \/ CheckDevice
    \/ Launch
    \/ NewPage
    \/ SetUserAgent
    \/ Goto
    \/ Focus
    \/ QueryButtons
    \/ Evaluate
    \/ Classify
    \/ Decide
    \/ AwaitNotify
    \/ Catch
    \/ AwaitErrorNotify
    \/ Finally
    \/ MainThen
    \/ MainCatch
    \/ AwaitCritical

Spec == Init /\ [][Next]_vars

-----------------------------------------------------------------------------
(* The availability checker on its own: the classifier is applied to every  *)
(* sequence of at most MaxTexts texts, and applied again to a rearrangement. *)

\* Longest sequence of texts handed to the classifier.
MaxTexts == 2

\* The first scenario of the specification: the wording of the store page.
ScenarioText ==
    <<"Steam", "Deck", "512", "GB", "OLED", "...", "Add", "to", "cart">>

ClassifierTexts ==
    SampleTexts \cup
    { ScenarioText,
      <<"Steam", "Deck", "512", "GB", "Add", "to", "cart">>,
      <<"Steam", "Deck", "LCD", "256GB", "Out", "of", "stock">>,
      <<"Steam", "Deck", "OLED", "1TB", "Add", "to", "cart">>,
      <<"Steam", "Deck", "OLED", "512GB", "Add", "to", "cart",
        "Steam", "Deck", "LCD", "512GB", "Out", "of", "stock">> }

TextSequences == UNION { [1..n -> ClassifierTexts] : n \in 0..MaxTexts }

Range(s) == { s[i] : i \in 1..Len(s) }

\* What the classifier steps leave alone.
runVars == <<argv, env, pushover, browser, launchCount, closeCount, gotoCount,
             pageButtons, sent, error, logs, printed, exitCode, variant, files>>

InitClassify ==
    /\ pc = "texts"
    /\ argv = [device |-> <<"oled-512">>, pushoverUser |-> "",
               pushoverToken |-> "", notifySuccess |-> FALSE,
               listDevices |-> FALSE]
    /\ env = [PUSHOVER_USER |-> "", PUSHOVER_TOKEN |-> ""]
    /\ pushover = NoClient
    /\ \E i \in 1..Len(DeviceCodes) : device = DeviceCodes[i]
    /\ browser = "none"
    /\ launchCount = 0
    /\ closeCount = 0
    /\ gotoCount = 0
    /\ pageButtons = 0
    /\ cartButtonTexts \in TextSequences
    /\ classified = FALSE
    /\ isDeviceAvailable = FALSE
    /\ availableDevices = <<>>
    /\ sent = <<>>
    /\ error = "none"
    /\ logs = {}
    /\ printed = FALSE
    /\ exitCode = -1
    /\ variant = "classifier"
    /\ files = NoLines

\* part_003, lines 172 and 175: the target and the whole catalog by name.
ClassifyByName ==
    /\ pc = "texts"
    /\ isDeviceAvailable' = checkDeviceAvailability(cartButtonTexts, DEVICES[device])
    /\ availableDevices' = checkAllDevicesAvailability(cartButtonTexts)
    /\ classified' = TRUE
    /\ pc' = "by_name"
    /\ UNCHANGED <<device, cartButtonTexts>>
    /\ UNCHANGED runVars

\* part_004, line 153: the target by its search terms.
ClassifyBySearchTerms ==
    /\ pc = "texts"
    /\ isDeviceAvailable' =
           checkDeviceAvailability_SearchTerms(cartButtonTexts,
                                               DEVICES_SearchTerms[device])
    /\ classified' = TRUE
    /\ pc' = "by_terms"
    /\ UNCHANGED <<device, cartButtonTexts, availableDevices>>
    /\ UNCHANGED runVars

\* The classifier is called again, on any sequence of the same texts: a
\* permutation, the same sequence, or one with a text repeated or dropped.
ClassifyAgain ==
    /\ pc \in {"by_name", "by_name_again"}
    /\ \E texts \in TextSequences :
        /\ Range(texts) = Range(cartButtonTexts)
        /\ cartButtonTexts' = texts
        /\ isDeviceAvailable' = checkDeviceAvailability(texts, DEVICES[device])
        /\ availableDevices' = checkAllDevicesAvailability(texts)
    /\ pc' = "by_name_again"
    /\ UNCHANGED <<device, classified>>
    /\ UNCHANGED runVars

NextClassify ==
    \/ ClassifyByName
    \/ ClassifyBySearchTerms
    \/ ClassifyAgain

SpecClassify == InitClassify /\ [][NextClassify]_vars

-----------------------------------------------------------------------------
(* The single-device programs: src/check-steam-deck.js, and its forerunners *)
(* that keep log files, src/unnamed/part_002 (with notifications) and       *)
(* src/unnamed/part_005 (without).  They share the scrape and the teardown; *)
(* the error notification of their catch block is started and not awaited.  *)

LegacyVariants == {"check-steam-deck.js", "part_002", "part_005"}

\* The variants that send notifications.
Notifies == variant \in {"check-steam-deck.js", "part_002"}

\* The variants that append to the files of the logs directory.
KeepsLogFiles == variant \in {"part_002", "part_005"}

\* fs.appendFileSync(path.join(logsDir, file), line)
appendFileSync(fs, file) == [fs EXCEPT ![file] = @ + 1]

\* checkOledAvailability: one text has the model and "Add to cart".
checkOledAvailability(texts) ==
    \E i \in 1..Len(texts) :
        /\ Includes(texts[i], <<"Steam", "Deck", "512", "GB", "OLED">>)
        /\ Includes(texts[i], <<"Add", "to", "cart">>)

\* sendNotification of the single-device programs: the sound follows from
\* the priority.
sendNotification_Single(po, kind, priority) ==
    sendNotification(po, kind, "oled-512", <<>>, priority,
                     IF priority > 0 THEN "magic" ELSE "pushover")

InitLegacy ==
    /\ pc = "l_start"
    /\ variant \in LegacyVariants
    /\ argv = [device |-> <<"oled-512">>, pushoverUser |-> "",
               pushoverToken |-> "", notifySuccess |-> FALSE,
               listDevices |-> FALSE]
    /\ env \in [PUSHOVER_USER : {"", "env-user"},
                PUSHOVER_TOKEN : {"", "env-token"}]
    /\ pushover = NoClient
    /\ device = "oled-512"
    /\ browser = "none"
    /\ launchCount = 0
    /\ closeCount = 0
    /\ gotoCount = 0
    /\ pageButtons = 0
    /\ cartButtonTexts = <<>>
    /\ classified = FALSE
    /\ isDeviceAvailable = FALSE
    /\ availableDevices = <<>>
    /\ sent = <<>>
    /\ error = "none"
    /\ logs = {}
    /\ printed = FALSE
    /\ exitCode = -1
    /\ files = NoLines

\* An awaited operation inside the try block rejects.
LegacyThrows(e) ==
    /\ error' = e
    /\ pc' = "l_catch"

\* checkSteamDeckStock up to its try block: the client is built from the
\* environment.
LegacyStart ==
    /\ pc = "l_start"
    /\ pushover' = IF Notifies
                   THEN initializePushover(env.PUSHOVER_USER, env.PUSHOVER_TOKEN)
                   ELSE NoClient
    /\ pc' = "l_launch"
    /\ UNCHANGED <<argv, env, device, browser, launchCount, closeCount,
                   gotoCount, pageButtons, cartButtonTexts, classified,
                   isDeviceAvailable, availableDevices, sent, error, logs,
                   printed, exitCode, variant, files>>

\* browser = await puppeteer.launch(...)
LegacyLaunch ==
    /\ pc = "l_launch"
    /\ \/ /\ browser' = "open"
          /\ launchCount' = launchCount + 1
          /\ pc' = "l_newPage"
          /\ error' = error
       \/ /\ LegacyThrows("launch_failed")
          /\ UNCHANGED <<browser, launchCount>>
    /\ UNCHANGED <<argv, env, pushover, device, closeCount, gotoCount,
                   pageButtons, cartButtonTexts, classified,
                   isDeviceAvailable, availableDevices, sent, logs, printed,
                   exitCode, variant, files>>

\* const page = await browser.newPage()
LegacyNewPage ==
    /\ pc = "l_newPage"
    /\ \/ /\ pc' = "l_setUserAgent"
          /\ error' = error
       \/ LegacyThrows("new_page_failed")
    /\ UNCHANGED <<argv, env, pushover, device, browser, launchCount,
                   closeCount, gotoCount, pageButtons, cartButtonTexts,
                   classified, isDeviceAvailable, availableDevices, sent,
                   logs, printed, exitCode, variant, files>>

\* await page.setUserAgent(...)
LegacySetUserAgent ==
    /\ pc = "l_setUserAgent"
    /\ \/ /\ pc' = "l_goto"
          /\ error' = error
       \/ LegacyThrows("user_agent_failed")
    /\ UNCHANGED <<argv, env, pushover, device, browser, launchCount,
                   closeCount, gotoCount, pageButtons, cartButtonTexts,
                   classified, isDeviceAvailable, availableDevices, sent,
                   logs, printed, exitCode, variant, files>>

\* await page.goto(url, { waitUntil: "networkidle0" })
LegacyGoto ==
    /\ pc = "l_goto"
    /\ gotoCount' = gotoCount + 1
    /\ \/ /\ \E n \in 0..MaxButtons : pageButtons' = n
          /\ pc' = "l_focus"
          /\ error' = error
       \/ /\ LegacyThrows("navigation_timeout")
          /\ pageButtons' = pageButtons
    /\ UNCHANGED <<argv, env, pushover, device, browser, launchCount,
                   closeCount, cartButtonTexts, classified,
                   isDeviceAvailable, availableDevices, sent, logs, printed,
                   exitCode, variant, files>>

\* await page.focus("div.CartBtn")
LegacyFocus ==
    /\ pc = "l_focus"
    /\ IF pageButtons = 0
       THEN LegacyThrows("no_element_for_selector")
       ELSE \/ /\ pc' = "l_query"
               /\ error' = error
            \/ LegacyThrows("focus_failed")
    /\ UNCHANGED <<argv, env, pushover, device, browser, launchCount,
                   closeCount, gotoCount, pageButtons, cartButtonTexts,
                   classified, isDeviceAvailable, availableDevices, sent,
                   logs, printed, exitCode, variant, files>>

\* await page.$$("div.CartBtn")
LegacyQueryButtons ==
    /\ pc = "l_query"
    /\ \/ /\ pc' = "l_evaluate"
          /\ error' = error
       \/ LegacyThrows("query_failed")
    /\ UNCHANGED <<argv, env, pushover, device, browser, launchCount,
                   closeCount, gotoCount, pageButtons, cartButtonTexts,
                   classified, isDeviceAvailable, availableDevices, sent,
                   logs, printed, exitCode, variant, files>>

\* One iteration of the for loop over the buttons.
LegacyEvaluate ==
    /\ pc = "l_evaluate"
    /\ Len(cartButtonTexts) < pageButtons
    /\ \/ /\ \E text \in SampleTexts :
                cartButtonTexts' = Append(cartButtonTexts, text)
          /\ UNCHANGED <<pc, error>>
       \/ /\ LegacyThrows("evaluate_failed")
          /\ cartButtonTexts' = cartButtonTexts
    /\ UNCHANGED <<argv, env, pushover, device, browser, launchCount,
                   closeCount, gotoCount, pageButtons, classified,
                   isDeviceAvailable, availableDevices, sent, logs, printed,
                   exitCode, variant, files>>

\* The loop is over: the availability test and the if/else after it.  In
\* stock: the line of in_stock.txt is appended, then the notification is
\* sent and awaited.  Not in stock: the line of check_log.txt is appended.
LegacyDecide ==
    /\ pc = "l_evaluate"
    /\ Len(cartButtonTexts) = pageButtons
    /\ classified' = TRUE
    /\ isDeviceAvailable' = checkOledAvailability(cartButtonTexts)
    /\ IF checkOledAvailability(cartButtonTexts)
       THEN /\ files' = IF KeepsLogFiles
                        THEN appendFileSync(files, "in_stock") ELSE files
            /\ IF Notifies
               THEN /\ sent' = Append(sent, sendNotification_Single(pushover, "in_stock", 1))
                    /\ pc' = "l_await_notify"
               ELSE /\ sent' = sent
                    /\ pc' = "l_finally"
       ELSE /\ files' = IF KeepsLogFiles
                        THEN appendFileSync(files, "check_log") ELSE files
            /\ sent' = sent
            /\ pc' = "l_finally"
    /\ UNCHANGED <<argv, env, pushover, device, browser, launchCount,
                   closeCount, gotoCount, pageButtons, cartButtonTexts,
                   availableDevices, error, logs, printed, exitCode, variant>>

\* The awaited in-stock notification settles.
LegacyAwaitNotify ==
    /\ pc = "l_await_notify"
    /\ \E ok \in BOOLEAN :
        /\ sent' = Settled(ok)
        /\ IF LastFails(ok)
           THEN /\ logs' = logs \cup {"send_failed"}
                /\ LegacyThrows("notification_failed")
           ELSE /\ pc' = "l_finally"
                /\ UNCHANGED <<logs, error>>
    /\ UNCHANGED <<argv, env, pushover, device, browser, launchCount,
                   closeCount, gotoCount, pageButtons, cartButtonTexts,
                   classified, isDeviceAvailable, availableDevices, printed,
                   exitCode, variant, files>>

\* catch (error): log it, append the line of error.txt, start the error
\* notification without awaiting it, and throw the error again.
LegacyCatch ==
    /\ pc = "l_catch"
    /\ logs' = logs \cup {"error_occurred"}
    /\ files' = IF KeepsLogFiles THEN appendFileSync(files, "error") ELSE files
    /\ sent' = IF Notifies
               THEN Append(sent, sendNotification_Single(pushover, "error", 0))
               ELSE sent
    /\ pc' = "l_finally"
    /\ UNCHANGED <<argv, env, pushover, device, browser, launchCount,
                   closeCount, gotoCount, pageButtons, cartButtonTexts,
                   classified, isDeviceAvailable, availableDevices, error,
                   printed, exitCode, variant>>

\* finally { if (browser) await browser.close() }: the call of close.
LegacyFinally ==
    /\ pc = "l_finally"
    /\ IF browser = "open"
       THEN /\ closeCount' = closeCount + 1
            /\ pc' = "l_closing"
       ELSE /\ closeCount' = closeCount
            /\ pc' = IF error = "none" THEN "l_main_then" ELSE "l_main_catch"
    /\ UNCHANGED <<argv, env, pushover, device, browser, launchCount,
                   gotoCount, pageButtons, cartButtonTexts, classified,
                   isDeviceAvailable, availableDevices, sent, error, logs,
                   printed, exitCode, variant, files>>

\* browser.close() resolves and the promise of checkSteamDeckStock settles.
LegacyClosed ==
    /\ pc = "l_closing"
    /\ browser' = "closed"
    /\ pc' = IF error = "none" THEN "l_main_then" ELSE "l_main_catch"
    /\ UNCHANGED <<argv, env, pushover, device, launchCount, closeCount,
                   gotoCount, pageButtons, cartButtonTexts, classified,
                   isDeviceAvailable, availableDevices, sent, error, logs,
                   printed, exitCode, variant, files>>

\* The error notification nobody awaits settles while the browser closes;
\* its .catch handler logs a failure.
LegacySettleDetached ==
    /\ pc = "l_closing"
    /\ Len(sent) >= 1
    /\ sent[Len(sent)].kind = "error"
    /\ sent[Len(sent)].outcome = "pending"
    /\ \E ok \in BOOLEAN :
        /\ sent' = Settled(ok)
        /\ logs' = IF ok THEN logs
                   ELSE logs \cup {"send_failed", "error_notification_failed"}
    /\ UNCHANGED <<pc, argv, env, pushover, device, browser, launchCount,
                   closeCount, gotoCount, pageButtons, cartButtonTexts,
                   classified, isDeviceAvailable, availableDevices, error,
                   printed, exitCode, variant, files>>

\* .then(() => process.exit(0))
LegacyMainThen ==
    /\ pc = "l_main_then"
    /\ exitCode' = 0
    /\ pc' = "exited"
    /\ UNCHANGED <<argv, env, pushover, device, browser, launchCount,
                   closeCount, gotoCount, pageButtons, cartButtonTexts,
                   classified, isDeviceAvailable, availableDevices, sent,
                   error, logs, printed, variant, files>>

\* .catch((error) => process.exit(1))
LegacyMainCatch ==
    /\ pc = "l_main_catch"
    /\ logs' = logs \cup {"stock_check_failed"}
    /\ exitCode' = 1
    /\ pc' = "exited"
    /\ UNCHANGED <<argv, env, pushover, device, browser, launchCount,
                   closeCount, gotoCount, pageButtons, cartButtonTexts,
                   classified, isDeviceAvailable, availableDevices, sent,
                   error, printed, variant, files>>

NextLegacy ==
    \/ LegacyStart
    \/ LegacyLaunch
    \/ LegacyNewPage
    \/ LegacySetUserAgent
    \/ LegacyGoto
    \/ LegacyFocus
    \/ LegacyQueryButtons
    \/ LegacyEvaluate
    \/ LegacyDecide
    \/ LegacyAwaitNotify
    \/ LegacyCatch
    \/ LegacyFinally
    \/ LegacyClosed
    \/ LegacySettleDetached
    \/ LegacyMainThen
    \/ LegacyMainCatch

SpecLegacy == InitLegacy /\ [][NextLegacy]_vars

-----------------------------------------------------------------------------
(* Vocabulary of the properties *)

Exited == pc = "exited"

StockKinds == {"in_stock", "other_devices", "heartbeat"}

ScrapeErrors ==
    {"launch_failed", "new_page_failed", "user_agent_failed",
     "navigation_timeout", "no_element_for_selector", "focus_failed",
     "query_failed", "evaluate_failed"}

ConfigErrors == {"unknown_device", "invalid_choice"}

\* Number of sendNotification calls of the given kinds.
Count(kinds) == Cardinality({i \in 1..Len(sent) : sent[i].kind \in kinds})

\* Calls that reached pushover.send.
Attempts == {i \in 1..Len(sent) : sent[i].transport}

\* checkSteamDeckStock has been called and has passed its device lookup.
LookedUp == pc \notin {"start", "main", "call"} /\ ~printed /\ error # "invalid_choice"

-----------------------------------------------------------------------------
(* C1 *)

\* C1 (as stated): once the texts are classified, a failed delivery of the
\* in-stock, other-devices or heartbeat notification leaves the outcome
\* alone: checkSteamDeckStock resolves and the process exits with code 0.
C1_DeliveryFailureKeepsOutcome ==
    (/\ Exited
     /\ classified
     /\ \E i \in 1..Len(sent) :
            sent[i].kind \in StockKinds /\ sent[i].outcome = "failed")
        => (exitCode = 0 /\ error = "none")

-----------------------------------------------------------------------------
(* C2 *)

\* C2 (as stated): when the scraper fails and a client is configured, the
\* run attempts exactly one error notification and exits with code 1.
C2_ExactlyOneErrorNotification ==
    (Exited /\ error \in ScrapeErrors /\ pushover.configured)
        => (exitCode = 1 /\ Cardinality(Attempts) = 1)

\* C2 (amended): when the scraper fails and a client is configured, the run
\* attempts exactly two notifications, the error alert of
\* checkSteamDeckStock and then the critical failure notification of the
\* CLI entry, and exits with code 1 whatever their outcomes; when the error
\* alert fails, both failures are in the logs.
C2_ErrorAlertThenCritical ==
    (Exited /\ error \in ScrapeErrors /\ pushover.configured)
        => /\ exitCode = 1
           /\ Len(sent) = 2
           /\ Attempts = {1, 2}
           /\ sent[1].kind = "error" /\ sent[1].priority = 1
           /\ sent[2].kind = "critical" /\ sent[2].priority = 2
           /\ \A i \in 1..2 : sent[i].outcome \in {"ok", "failed"}
           /\ sent[1].outcome = "failed"
                => {"error_occurred", "error_notification_failed"} \subseteq logs

C2_Witness ==
    /\ Exited
    /\ error = "navigation_timeout"
    /\ pushover.configured
    /\ Len(sent) = 2
    /\ sent[1].outcome = "failed"
    /\ exitCode = 1

-----------------------------------------------------------------------------
(* C3 *)

\* C3: a launched browser session is closed exactly once on every exit
\* path, the close is over before checkSteamDeckStock settles and before
\* the process exits, and close is never called without a session.
C3_BrowserClosedExactlyOnce ==
    /\ launchCount \in {0, 1}
    /\ closeCount <= launchCount
    /\ browser = "none" <=> launchCount = 0
    /\ browser = "closed" <=> closeCount = 1
    /\ pc \in {"main_then", "main_catch", "await_critical", "exited"}
            => (closeCount = launchCount /\ browser # "open")

C3_Witness ==
    /\ Exited
    /\ launchCount = 1
    /\ closeCount = 1
    /\ error = "notification_failed"

-----------------------------------------------------------------------------
(* C4 *)

-----------------------------------------------------------------------------
(* C5 *)

\* C5 (as stated): when the target's predicate fails and another device's
\* succeeds, the run sends exactly one notification, of priority 0 and
\* sound pushover, listing the names of exactly the available devices.
C5_OtherDevicesSingleNotification ==
    (Exited /\ classified /\ ~isDeviceAvailable /\ Len(availableDevices) > 0)
        => /\ Len(sent) = 1
           /\ sent[1].kind = "other_devices"
           /\ sent[1].priority = 0
           /\ sent[1].sound = "pushover"
           /\ sent[1].names = [i \in 1..Len(availableDevices) |->
                                  DEVICES[availableDevices[i]].name]

-----------------------------------------------------------------------------
(* C6 *)

\* C6 (as stated): when no device is available the run sends exactly one
\* heartbeat of priority 0 if notify-success is set and nothing if it is
\* unset, and exits with code 0 in both cases.
C6_HeartbeatOrSilence ==
    (Exited /\ classified /\ Len(availableDevices) = 0)
        => /\ exitCode = 0
           /\ IF argv.notifySuccess
              THEN /\ Len(sent) = 1
                   /\ sent[1].kind = "heartbeat"
                   /\ sent[1].priority = 0
              ELSE Len(sent) = 0

-----------------------------------------------------------------------------
(* C7 *)

\* C7 (as stated): a check exits with code 0 exactly when the page was
\* scraped and classified, and with code 1 exactly when it failed through
\* a scraping error or a configuration error.
C7_ExitCodeMatchesOutcome ==
    (Exited /\ ~printed)
        => /\ exitCode = 0 <=> classified
           /\ exitCode = 1 <=> error \in ScrapeErrors \cup ConfigErrors

-----------------------------------------------------------------------------
(* C8 *)

\* C8: a call of checkSteamDeckStock with a device code that is no key of
\* the catalog fails with the unknown-device error before the scrape: no
\* browser is launched and no page is navigated to.
C8_UnknownDeviceFailsBeforeScrape ==
    (LookedUp /\ Join(argv.device) \notin {"oled-512", "oled-1tb", "lcd-256", "lcd-512"})
        => /\ error = "unknown_device"
           /\ pc \in {"main_catch", "await_critical", "exited"}
           /\ browser = "none"
           /\ launchCount = 0
           /\ gotoCount = 0
           /\ ~classified

C8_Witness ==
    /\ Exited
    /\ error = "unknown_device"
    /\ Len(argv.device) = 2
    /\ exitCode = 1

-----------------------------------------------------------------------------
(* C9 *)

\* C9 (as stated): a run that fails with a configuration error launches no
\* browser, navigates to no page and attempts no notification delivery,
\* also when credentials are configured.
C9_ConfigErrorNoNetwork ==
    error \in ConfigErrors
        => /\ launchCount = 0
           /\ gotoCount = 0
           /\ Attempts = {}

-----------------------------------------------------------------------------
(* C10 *)

\* C10: without a Pushover client every call of sendNotification is a
\* no-op that succeeds: the transport is never invoked, no delivery failure
\* is thrown or logged, and a run that classified the page exits with 0.
C10_NoClientNoOp ==
    ~pushover.configured
        => /\ \A i \in 1..Len(sent) :
                ~sent[i].transport /\ sent[i].outcome = "noop"
           /\ error # "notification_failed"
           /\ "send_failed" \notin logs
           /\ (Exited /\ classified) => exitCode = 0

C10_Witness ==
    /\ Exited
    /\ ~pushover.configured
    /\ Len(sent) = 1
    /\ sent[1].kind = "in_stock"
    /\ exitCode = 0


-----------------------------------------------------------------------------
(* C11 *)

-----------------------------------------------------------------------------
(* C13 *)

\* The page was loaded and shows no cart button.
LoadedWithoutButtons ==
    /\ gotoCount = 1
    /\ pageButtons = 0
    /\ error # "navigation_timeout"

\* C13: when the loaded page has no element for the cart button selector,
\* the scrape fails with the selector error, the error notification is
\* attempted and the run exits with code 1; an empty list of texts is never
\* classified.
C13_NoButtonsFailsTheRun ==
    /\ classified => (Len(cartButtonTexts) >= 1 /\ pageButtons >= 1)
    /\ (LoadedWithoutButtons /\ pc # "focus")
            => /\ error = "no_element_for_selector"
               /\ ~classified
               /\ cartButtonTexts = <<>>
               /\ pc \notin {"catch"} => (Len(sent) >= 1 /\ sent[1].kind = "error")
               /\ Exited => exitCode = 1

C13_Witness ==
    /\ Exited
    /\ LoadedWithoutButtons
    /\ error = "no_element_for_selector"
    /\ sent[1].kind = "error"
    /\ exitCode = 1

-----------------------------------------------------------------------------
(* C16 *)

\* C16: once the client is built, each credential is the command line value
\* when one is given and the environment variable otherwise; delivery is
\* enabled exactly when both are non-empty, and a run without delivery whose
\* scrape succeeded exits with code 0.
C16_CredentialResolution ==
    (pc \notin {"start", "main"} /\ ~printed /\ error # "invalid_choice")
        => LET userKey == IF argv.pushoverUser # "" THEN argv.pushoverUser
                          ELSE env.PUSHOVER_USER
               apiToken == IF argv.pushoverToken # "" THEN argv.pushoverToken
                           ELSE env.PUSHOVER_TOKEN
           IN /\ pushover.configured <=> (userKey # "" /\ apiToken # "")
              /\ pushover.configured => (pushover.user = userKey /\ pushover.token = apiToken)
              /\ ~pushover.configured => Attempts = {}
              /\ (~pushover.configured /\ Exited /\ classified) => exitCode = 0

C16_Witness ==
    /\ Exited
    /\ argv.pushoverUser = "cli-user"
    /\ env.PUSHOVER_USER = "env-user"
    /\ argv.pushoverToken = ""
    /\ env.PUSHOVER_TOKEN = "env-token"
    /\ pushover = [configured |-> TRUE, user |-> "cli-user", token |-> "env-token"]
    /\ classified

-----------------------------------------------------------------------------
(* C17 *)

-----------------------------------------------------------------------------
(* C14 *)

\* The classifier of part_003 has been applied to cartButtonTexts.
ByName == pc \in {"by_name", "by_name_again"}

\* The display names, as the catalog of part_003 spells them.
DisplayName(code) ==
    CASE code = "oled-512" -> <<"Steam", "Deck", "OLED", "512GB">>
      [] code = "oled-1tb" -> <<"Steam", "Deck", "OLED", "1TB">>
      [] code = "lcd-256"  -> <<"Steam", "Deck", "LCD", "256GB">>
      [] code = "lcd-512"  -> <<"Steam", "Deck", "LCD", "512GB">>

\* C14: under the name-and-not-out-of-stock policy a device code is in the
\* result of checkAllDevicesAvailability if and only if one single text
\* contains the display name of the device and does not contain
\* "Out of stock".
C14_NamePolicyIff ==
    ByName
        => \A code \in {"oled-512", "oled-1tb", "lcd-256", "lcd-512"} :
              (code \in Range(availableDevices))
                <=> \E i \in 1..Len(cartButtonTexts) :
                        /\ Includes(cartButtonTexts[i], DisplayName(code))
                        /\ ~Includes(cartButtonTexts[i], <<"Out", "of", "stock">>)

C14_Witness ==
    /\ pc = "by_name"
    /\ cartButtonTexts =
         << <<"Steam", "Deck", "OLED", "512GB", "Out", "of", "stock">>,
            <<"Steam", "Deck", "LCD", "256GB", "Add", "to", "cart">> >>
    /\ availableDevices = <<"lcd-256">>

-----------------------------------------------------------------------------
(* C15 *)

\* C15 (as stated): under the all-terms policy of part_004 the single text
\* "Steam Deck 512 GB OLED ... Add to cart" makes the predicate of oled-512
\* succeed and the predicate of no other device.
C15_ScenarioTextOnlyOled512 ==
    (pc = "by_terms" /\ cartButtonTexts = <<ScenarioText>>)
        => (isDeviceAvailable <=> device = "oled-512")

-----------------------------------------------------------------------------
(* C18 *)

\* C18: every code checkAllDevicesAvailability returns is a key of the
\* catalog, so the names of the other-devices message are defined, and the
\* empty sequence of texts gives the empty result.
C18_ResultWithinCatalog ==
    ByName
        => /\ \A i \in 1..Len(availableDevices) :
                /\ availableDevices[i] \in {"oled-512", "oled-1tb", "lcd-256", "lcd-512"}
                /\ availableDevices[i] \in DOMAIN DEVICES
                /\ otherDeviceNames(availableDevices)[i] = DisplayName(availableDevices[i])
           /\ cartButtonTexts = <<>> => (availableDevices = <<>> /\ ~isDeviceAvailable)

C18_Witness ==
    /\ pc = "by_name"
    /\ availableDevices = <<"oled-512", "lcd-256">>
    /\ Len(cartButtonTexts) = 2

-----------------------------------------------------------------------------
(* C19 *)

\* C19: the result depends on the set of texts only: a second call of the
\* classifier, on a permutation of the sequence or on the same sequence,
\* returns the devices the first call returned.
C19_OrderIndependent ==
    [][(ByName /\ pc' = "by_name_again")
          => (availableDevices' = availableDevices
              /\ isDeviceAvailable' = isDeviceAvailable)]_vars

C19_Witness ==
    /\ pc = "by_name_again"
    /\ cartButtonTexts =
         << <<"Steam", "Deck", "LCD", "256GB", "Add", "to", "cart">>,
            <<"Steam", "Deck", "OLED", "512GB", "Out", "of", "stock">> >>
    /\ availableDevices = <<"lcd-256">>


-----------------------------------------------------------------------------
(* C12 *)

\* The positions at which an operation of the browser is awaited.
BrowserAwaits ==
    {"launch", "newPage", "setUserAgent", "goto", "focus", "query", "evaluate",
     "l_launch", "l_newPage", "l_setUserAgent", "l_goto", "l_focus", "l_query",
     "l_evaluate", "l_closing"}

\* Calls of pushover.send that have not called back yet.
PendingSends == {i \in 1..Len(sent) : sent[i].outcome = "pending"}

\* Number of external operations in flight.
OpsInFlight ==
    (IF pc \in BrowserAwaits /\ ~(pc \in {"evaluate", "l_evaluate"}
                                  /\ Len(cartButtonTexts) = pageButtons)
     THEN 1 ELSE 0) + Cardinality(PendingSends)

\* C12 (as stated): the external operations of a run are awaited one after
\* the other: never are two of them in flight at the same time, and the
\* process does not exit while one is pending.
C12_SequentialAwaits ==
    /\ OpsInFlight <= 1
    /\ Exited => OpsInFlight = 0

-----------------------------------------------------------------------------
(* C20 *)

\* C20 (as stated): in the programs that keep log files a run appends one
\* line, to the file of its terminal outcome: in_stock.txt when the device
\* is in stock, check_log.txt when it is not, error.txt when the run fails;
\* the two other files stay as they were.
C20_OneLineForTheOutcome ==
    (Exited /\ KeepsLogFiles)
        => files = (IF exitCode = 1
                    THEN [in_stock |-> 0, check_log |-> 0, error |-> 1]
                    ELSE IF isDeviceAvailable
                    THEN [in_stock |-> 1, check_log |-> 0, error |-> 0]
                    ELSE [in_stock |-> 0, check_log |-> 1, error |-> 0])


-----------------------------------------------------------------------------
(* C21 *)

\* C21: once the texts are classified, the flag of the monitored device is
\* true exactly when its code is in the list of available devices; and an
\* "other devices available" message never lists the monitored device.
C21_FlagIffListed ==
    /\ classified => (isDeviceAvailable <=> device \in Range(availableDevices))
    /\ \A i \in 1..Len(sent) :
          sent[i].kind = "other_devices"
              => /\ ~isDeviceAvailable
                 /\ sent[i].names = otherDeviceNames(availableDevices)
                 /\ DEVICES[device].name \notin Range(sent[i].names)

\* The monitored device is sold out on the page, another model is not, and
\* the message about the other model was sent.
C21_Witness ==
    /\ classified
    /\ \E i \in 1..Len(cartButtonTexts) :
          Includes(cartButtonTexts[i], DEVICES[device].name)
    /\ ~isDeviceAvailable
    /\ Len(availableDevices) > 0
    /\ \E i \in 1..Len(sent) : sent[i].kind = "other_devices"


-----------------------------------------------------------------------------
(* C22 *)

\* checkSteamDeckStock was called and its promise rejects.
Rejected == error \notin {"none", "invalid_choice"}

\* The critical failure notifications handed to pushover.send.
CriticalAttempts == {i \in Attempts : sent[i].kind = "critical"}

\* C22: the critical failure notification (priority 2) is attempted exactly
\* when checkSteamDeckStock rejected and a client is configured; it starts
\* after the browser teardown and after every earlier notification settled,
\* and the process exits with code 1 only once it has settled.
C22_CriticalAfterTeardownBeforeExit ==
    /\ Cardinality(CriticalAttempts) <= 1
    /\ Count({"critical"}) = Cardinality(CriticalAttempts)
    /\ \A i \in CriticalAttempts :
          /\ Rejected /\ pushover.configured
          /\ pc \in {"await_critical", "exited"}
          /\ sent[i].priority = 2
          /\ i = Len(sent)
          /\ browser # "open" /\ closeCount = launchCount
          /\ \A j \in 1..(i - 1) : sent[j].outcome # "pending"
    /\ pc = "await_critical" => CriticalAttempts # {}
    /\ (Exited /\ ~printed)
          => /\ (CriticalAttempts # {}) <=> (Rejected /\ pushover.configured)
             /\ exitCode = 1 <=> (Rejected \/ error = "invalid_choice")
             /\ \A i \in CriticalAttempts : sent[i].outcome \in {"ok", "failed"}

\* The scrape failed with the browser open, the browser was closed, the
\* critical failure notification was attempted and failed, and the process
\* exited with code 1.
C22_Witness ==
    /\ Exited /\ exitCode = 1
    /\ launchCount = 1 /\ browser = "closed"
    /\ \E i \in CriticalAttempts : sent[i].outcome = "failed"

====
